---- MODULE Spec2Model ----
(***************************************************************************)
(* Model of the pass pruneNonEscapingScopes                                *)
(* (compiler/forget/src/ReactiveScopes/PruneNonEscapingScopes.ts).         *)
(*                                                                         *)
(* The pass runs in three phases over one reactive function:               *)
(*   Collect : CollectDependenciesVisitor fills a State (identifier graph, *)
(*             scope graph, returned identifiers);                         *)
(*   Solve   : computeMemoizedIdentifiers walks the graph from the returned*)
(*             identifiers and yields the memoized set;                    *)
(*   Prune   : PruneScopesTransform replaces every scope block without a   *)
(*             memoized output by its instructions.                        *)
(* A JavaScript Set or Map iterates in insertion order, so every Set of    *)
(* the source is a duplicate-free sequence here.                           *)
(***************************************************************************)
EXTENDS Integers, Sequences, FiniteSets, TLC

VARIABLES
    input,        \* the reactive function as it was handed to the pass
    fn,           \* the reactive function, mutated in place by the transform
    options,      \* MemoizationOptions
    definitions,  \* State.definitions
    identifiers,  \* State.identifiers
    scopes,       \* State.scopes
    returned,     \* State.returned
    memoized,     \* the set computeMemoizedIdentifiers returns
    forcedFirst,  \* identifiers whose first visit by the solver had forceMemoize
    calls,        \* the calls of the solver that went past their seen check, in order
    error,        \* the message of the invariant that aborted the pass, or ""
    pc,           \* the pass's position: which phase comes next
    runs          \* completed runs of the pass on fn

vars == <<input, fn, options, definitions, identifiers, scopes, returned,
          memoized, forcedFirst, calls, error, pc, runs>>

----------------------------------------------------------------------------
(* Bounds of the model *)

MaxInstrs == 3

MaxStmts == 4

MaxNestedInstrs == 2

MaxCollectorInstrs == 3

MaxFaultyInstrs == 2

MaxCollectorIds == 2

NumScopes == 2

MaxScopeDeps == 1

MaxRuns == 2

----------------------------------------------------------------------------
(* Sequences used as insertion-ordered sets *)

Range(s) == { s[i] : i \in 1..Len(s) }

SetAdd(s, x) == IF x \in Range(s) THEN s ELSE Append(s, x)

----------------------------------------------------------------------------
(* MemoizationLevel and its join *)

MemoizationLevel == {"Memoized", "Conditional", "Unmemoized", "Never"}

\* Variant: Unmemoized is tested before Conditional
joinAliasesUnmemoizedFirst(kind1, kind2) ==
    IF kind1 = "Memoized" \/ kind2 = "Memoized" THEN "Memoized"
    ELSE IF kind1 = "Unmemoized" \/ kind2 = "Unmemoized" THEN "Unmemoized"
    ELSE IF kind1 = "Conditional" \/ kind2 = "Conditional" THEN "Conditional"
    ELSE "Never"

\* lines 154-176
joinAliases(kind1, kind2) ==
    IF kind1 = "Memoized" \/ kind2 = "Memoized" THEN "Memoized"
    ELSE IF kind1 = "Conditional" \/ kind2 = "Conditional" THEN "Conditional"
    ELSE IF kind1 = "Unmemoized" \/ kind2 = "Unmemoized" THEN "Unmemoized"
    ELSE "Never"

----------------------------------------------------------------------------
(* Places, values, instructions, statements.  Identifier ids and scope ids  *)
(* are positive; 0 stands for null.                                        *)

Place(i, e, s) == [identifier |-> i, effect |-> e, scope |-> s]

NoPlace == Place(0, "Read", 0)

isMutableEffect(effect) == effect \in {"Capture", "Mutate", "Store"}

\* The scope active for a place at its instruction, 0 when there is none.
getPlaceScope(place) == place.scope

Value(k, t, ops, pat, inn) ==
    [kind |-> k, target |-> t, operands |-> ops, pattern |-> pat, inner |-> inn]

\* Every operand place of a call-like value.
eachReactiveValueOperand(value) == value.operands

NeverKinds == {"ComputedDelete", "PropertyDelete", "LoadGlobal", "TemplateLiteral",
               "Primitive", "JSXText", "BinaryExpression", "UnaryExpression"}

CallKinds == {"OptionalCall", "RegExpLiteral", "FunctionExpression",
              "TaggedTemplateExpression", "CallExpression", "ArrayExpression",
              "NewExpression", "ObjectExpression", "MethodCall", "PropertyStore"}

LValueMemoization(p, l) == [place |-> p, level |-> l]

OptLvalue(lvalue, level) ==
    IF lvalue.identifier # 0 THEN <<LValueMemoization(lvalue, level)>> ELSE <<>>

RECURSIVE MapPattern(_, _)
\* computePatternLValues: a plain slot is Conditional, a rest/spread slot Memoized.
MapPattern(items, i) ==
    IF i > Len(items) THEN <<>>
    ELSE <<LValueMemoization(items[i].place,
                             IF items[i].rest THEN "Memoized" ELSE "Conditional")>>
         \o MapPattern(items, i + 1)

computePatternLValues(pattern) == MapPattern(pattern, 1)

RECURSIVE MutableLvalues(_, _)
MutableLvalues(operands, i) ==
    IF i > Len(operands) THEN <<>>
    ELSE (IF isMutableEffect(operands[i].effect)
          THEN <<LValueMemoization(operands[i], "Memoized")>> ELSE <<>>)
         \o MutableLvalues(operands, i + 1)

\* Variant: the option is not consulted
JsxLevelAlwaysMemoized(opts) == "Memoized"

\* lines 389-391 and 400-402
JsxLevel(opts) == IF opts.memoizeJsxElements THEN "Memoized" ELSE "Unmemoized"

Inputs(lvs, rvs) == [lvalues |-> lvs, rvalues |-> rvs, unsupported |-> FALSE]

RECURSIVE computeMemoizationInputs(_, _, _)
computeMemoizationInputs(value, lvalue, opts) ==
    CASE value.kind \in {"ConditionalExpression", "LogicalExpression"} ->
           LET a == computeMemoizationInputs(value.inner[1], NoPlace, opts)
               b == computeMemoizationInputs(value.inner[2], NoPlace, opts)
           IN  [lvalues |-> OptLvalue(lvalue, "Conditional"),
                rvalues |-> a.rvalues \o b.rvalues,
                unsupported |-> a.unsupported \/ b.unsupported]
      [] value.kind = "SequenceExpression" ->
           LET a == computeMemoizationInputs(value.inner[1], NoPlace, opts)
           IN  [lvalues |-> OptLvalue(lvalue, "Conditional"),
                rvalues |-> a.rvalues,
                unsupported |-> a.unsupported]
      [] value.kind \in {"JsxExpression", "JsxFragment"} ->
           Inputs(OptLvalue(lvalue, JsxLevel(opts)), value.operands)
      [] value.kind \in NeverKinds ->
           Inputs(OptLvalue(lvalue, "Never"), <<>>)
      [] value.kind \in {"TypeCastExpression", "LoadLocal"} ->
           Inputs(OptLvalue(lvalue, "Conditional"), value.operands)
      [] value.kind = "DeclareLocal" ->
           Inputs(<<LValueMemoization(value.target, "Unmemoized")>>
                    \o OptLvalue(lvalue, "Unmemoized"),
                  <<>>)
      [] value.kind = "StoreLocal" ->
           Inputs(<<LValueMemoization(value.target, "Conditional")>>
                    \o OptLvalue(lvalue, "Conditional"),
                  value.operands)
      [] value.kind = "Destructure" ->
           Inputs(OptLvalue(lvalue, "Conditional")
                    \o computePatternLValues(value.pattern),
                  value.operands)
      [] value.kind \in {"ComputedLoad", "PropertyLoad"} ->
           Inputs(OptLvalue(lvalue, "Conditional"), <<value.target>>)
      [] value.kind = "ComputedStore" ->
           Inputs(<<LValueMemoization(value.target, "Conditional")>>
                    \o OptLvalue(lvalue, "Conditional"),
                  value.operands)
      [] value.kind \in CallKinds ->
           Inputs(MutableLvalues(eachReactiveValueOperand(value), 1)
                    \o OptLvalue(lvalue, "Memoized"),
                  eachReactiveValueOperand(value))
      [] OTHER ->
           [lvalues |-> <<>>, rvalues |-> <<>>, unsupported |-> TRUE]

----------------------------------------------------------------------------
(* State and the dependency collector *)

IdentifierNode(l) ==
    [level |-> l, memoized |-> FALSE, dependencies |-> <<>>, scopes |-> <<>>,
     seen |-> FALSE]

ScopeNode(deps) == [dependencies |-> deps, seen |-> FALSE]

\* A State with nothing collected; error is "" until an invariant fails.
NewState ==
    [definitions |-> <<>>, identifiers |-> <<>>, scopes |-> <<>>,
     returned |-> <<>>, error |-> ""]

Put(map, k, v) == [x \in DOMAIN map \cup {k} |-> IF x = k THEN v ELSE map[x]]

\* Variant: nothing is declared
declareNothing(st, id) == st

\* lines 206-214
declare(st, id) ==
    [st EXCEPT !.identifiers = Put(st.identifiers, id, IdentifierNode("Never"))]

Resolve(st, id) ==
    IF id \in DOMAIN st.definitions THEN st.definitions[id] ELSE id

visitOperand(st, f, place, identifier) ==
    LET scope == getPlaceScope(place) IN
    IF st.error # "" \/ scope = 0 THEN st
    ELSE LET s1 == IF scope \in DOMAIN st.scopes THEN st
                   ELSE [st EXCEPT !.scopes =
                            Put(st.scopes, scope, ScopeNode(f.scopes[scope].dependencies))]
         IN  IF identifier \notin DOMAIN s1.identifiers
             THEN [s1 EXCEPT !.error = "Expected identifier to be initialized"]
             ELSE [s1 EXCEPT !.identifiers[identifier].scopes =
                                 SetAdd(@, scope)]

RECURSIVE VisitRvalues(_, _, _, _)
\* lines 609-613: associate every rvalue with its scope
VisitRvalues(st, f, rvalues, i) ==
    IF i > Len(rvalues) THEN st
    ELSE VisitRvalues(
           visitOperand(st, f, rvalues[i], Resolve(st, rvalues[i].identifier)),
           f, rvalues, i + 1)

RECURSIVE AddDependencies(_, _, _, _)
RECURSIVE AddDependenciesWithSelf(_, _, _, _)

\* Variant: the lvalue itself is not skipped
AddDependenciesWithSelf(st, lvalueId, rvalues, i) ==
    IF i > Len(rvalues) THEN st
    ELSE AddDependenciesWithSelf(
           [st EXCEPT !.identifiers[lvalueId].dependencies =
                         SetAdd(@, Resolve(st, rvalues[i].identifier))],
           lvalueId, rvalues, i + 1)

\* lines 633-640: the rvalues other than the lvalue itself, in order
AddDependencies(st, lvalueId, rvalues, i) ==
    IF i > Len(rvalues) THEN st
    ELSE LET operandId == Resolve(st, rvalues[i].identifier) IN
         AddDependencies(
           IF operandId = lvalueId THEN st
           ELSE [st EXCEPT !.identifiers[lvalueId].dependencies = SetAdd(@, operandId)],
           lvalueId, rvalues, i + 1)

RECURSIVE VisitLvalues(_, _, _, _, _)
\* lines 616-643
VisitLvalues(st, f, lvalues, rvalues, i) ==
    IF i > Len(lvalues) \/ st.error # "" THEN st
    ELSE LET lvalueId == Resolve(st, lvalues[i].place.identifier)
             s1 == IF lvalueId \in DOMAIN st.identifiers THEN st
                   ELSE [st EXCEPT !.identifiers =
                            Put(st.identifiers, lvalueId, IdentifierNode("Never"))]
             s2 == [s1 EXCEPT !.identifiers[lvalueId].level =
                                  joinAliases(@, lvalues[i].level)]
             s3 == AddDependencies(s2, lvalueId, rvalues, 1)
         IN  VisitLvalues(visitOperand(s3, f, lvalues[i].place, lvalueId),
                          f, lvalues, rvalues, i + 1)

\* Variant: the definition of a LoadLocal is recorded before its own lvalues
\* and rvalues are processed
visitInstructionDefiningFirst(st, f, opts, instruction) ==
    LET aliasing == computeMemoizationInputs(instruction.value, instruction.lvalue, opts)
    IN
    IF st.error # "" THEN st
    ELSE IF aliasing.unsupported
    THEN [st EXCEPT !.error = "Unexpected unsupported node"]
    ELSE LET s0 == IF /\ instruction.value.kind = "LoadLocal"
                      /\ instruction.lvalue.identifier # 0
                   THEN [st EXCEPT !.definitions =
                            Put(st.definitions, instruction.lvalue.identifier,
                                instruction.value.operands[1].identifier)]
                   ELSE st
             s1 == VisitRvalues(s0, f, aliasing.rvalues, 1)
         IN  VisitLvalues(s1, f, aliasing.lvalues, aliasing.rvalues, 1)

visitInstruction(st, f, opts, instruction) ==
    LET aliasing == computeMemoizationInputs(instruction.value, instruction.lvalue, opts)
    IN
    IF st.error # "" THEN st
    ELSE IF aliasing.unsupported
    THEN [st EXCEPT !.error = "Unexpected unsupported node"]
    ELSE LET s1 == VisitRvalues(st, f, aliasing.rvalues, 1)
             s2 == VisitLvalues(s1, f, aliasing.lvalues, aliasing.rvalues, 1)
         IN  IF s2.error = ""
                /\ instruction.value.kind = "LoadLocal"
                /\ instruction.lvalue.identifier # 0
             THEN [s2 EXCEPT !.definitions =
                      Put(s2.definitions, instruction.lvalue.identifier,
                          instruction.value.operands[1].identifier)]
             ELSE s2

visitTerminal(st, stmt) ==
    IF st.error = "" /\ stmt.terminal = "return" /\ stmt.value # 0
    THEN [st EXCEPT !.returned = SetAdd(@, stmt.value)]
    ELSE st

RECURSIVE CollectBlock(_, _, _, _, _)
\* ReactiveFunctionVisitor.visitBlock: the statements in source order, a scope
\* block's statements in place of the block.
CollectBlock(st, f, opts, block, i) ==
    IF i > Len(block) THEN st
    ELSE LET stmt == block[i]
             s1 == CASE stmt.kind = "instruction" ->
                          visitInstruction(st, f, opts, stmt.instruction)
                      [] stmt.kind = "scope" ->
                          CollectBlock(st, f, opts, stmt.instructions, 1)
                      [] OTHER -> visitTerminal(st, stmt)
         IN  CollectBlock(s1, f, opts, block, i + 1)

RECURSIVE DeclareAll(_, _, _)
DeclareAll(st, params, i) ==
    IF i > Len(params) THEN st
    ELSE DeclareAll(declare(st, params[i]), params, i + 1)

\* pruneNonEscapingScopes, lines 111-118
Collected(f, opts) ==
    LET s0 == IF f.id # 0 THEN declare(NewState, f.id) ELSE NewState
        s1 == DeclareAll(s0, f.params, 1)
    IN  CollectBlock(s1, f, opts, f.body, 1)

----------------------------------------------------------------------------
(* The escape solver: computeMemoizedIdentifiers *)

\* Variant: level Memoized decides nothing by itself
ShouldMemoizeOnlyWithReason(level, hasMemoizedDependency, forceMemoize) ==
    \/ (level \in {"Memoized", "Conditional"} /\ (hasMemoizedDependency \/ forceMemoize))
    \/ (level = "Unmemoized" /\ forceMemoize)

\* Variant: forceMemoize is not consulted
ShouldMemoizeIgnoringForce(level, hasMemoizedDependency, forceMemoize) ==
    \/ level = "Memoized"
    \/ (level = "Conditional" /\ hasMemoizedDependency)

\* Variant: a Conditional node is memoized only when forced
ShouldMemoizeIgnoringDependencies(level, hasMemoizedDependency, forceMemoize) ==
    \/ level = "Memoized"
    \/ (level \in {"Conditional", "Unmemoized"} /\ forceMemoize)

\* Variant: forceMemoize memoizes whatever the level
ShouldMemoizeForcingAny(level, hasMemoizedDependency, forceMemoize) ==
    \/ level = "Memoized"
    \/ (level = "Conditional" /\ hasMemoizedDependency)
    \/ forceMemoize

\* lines 274-279: the decision taken once the dependencies have been visited
ShouldMemoize(level, hasMemoizedDependency, forceMemoize) ==
    \/ level = "Memoized"
    \/ (level = "Conditional" /\ (hasMemoizedDependency \/ forceMemoize))
    \/ (level = "Unmemoized" /\ forceMemoize)

\* lines 258-260: a node already seen answers with what has been decided so far
AlreadySeen(node) == node.seen

\* Variant: the scopes of a node are forced whether or not it was memoized
ScopesToForceAlways(node, isMemoized) == node.scopes

\* lines 280-284: the scopes of a node are forced only once it is memoized
ScopesToForce(node, isMemoized) == IF isMemoized THEN node.scopes ELSE <<>>

RECURSIVE visit(_, _, _)
RECURSIVE VisitDependencies(_, _, _, _)
RECURSIVE forceMemoizeScopeDependencies(_, _)
RECURSIVE ForceDependencies(_, _, _)
RECURSIVE ForceScopes(_, _, _)

\* The solver's state st carries the identifier and scope nodes, the memoized
\* set, and in ret the value the last call of visit returned.
visit(st, id, forceMemoize) ==
    IF st.error # "" THEN st
    ELSE IF id \notin DOMAIN st.identifiers
    THEN [st EXCEPT !.error = "Expected a node for all identifiers"]
    ELSE IF AlreadySeen(st.identifiers[id])
    THEN [st EXCEPT !.ret = st.identifiers[id].memoized]
    ELSE LET s1 == [st EXCEPT !.identifiers[id].seen = TRUE,
                              !.identifiers[id].memoized = FALSE,
                              !.forcedFirst = IF forceMemoize THEN @ \cup {id} ELSE @,
                              !.calls = Append(@, [callee |-> "visit", id |-> id])]
             s2 == VisitDependencies(s1, s1.identifiers[id].dependencies, 1, FALSE)
         IN  IF s2.error # "" THEN s2
             ELSE LET isMemoized == ShouldMemoize(s2.identifiers[id].level, s2.ret,
                                                  forceMemoize)
                      s3 == IF isMemoized
                            THEN [s2 EXCEPT !.identifiers[id].memoized = TRUE,
                                            !.memoized = SetAdd(@, id)]
                            ELSE s2
                      s4 == ForceScopes(s3, ScopesToForce(s3.identifiers[id], isMemoized), 1)
                  IN  IF s4.error # "" THEN s4
                      ELSE [s4 EXCEPT !.ret = s4.identifiers[id].memoized]

\* lines 268-272; ret of the result is hasMemoizedDependency
VisitDependencies(st, deps, i, hasMemoizedDependency) ==
    IF st.error # "" THEN st
    ELSE IF i > Len(deps) THEN [st EXCEPT !.ret = hasMemoizedDependency]
    ELSE LET s1 == visit(st, deps[i], FALSE) IN
         IF s1.error # "" THEN s1
         ELSE VisitDependencies(s1, deps, i + 1, hasMemoizedDependency \/ s1.ret)

\* lines 282-284
ForceScopes(st, scs, i) ==
    IF st.error # "" \/ i > Len(scs) THEN st
    ELSE ForceScopes(forceMemoizeScopeDependencies(st, scs[i]), scs, i + 1)

\* Variant: the scope is marked as seen and nothing is visited
forceMemoizeScopeDependenciesMarkOnly(st, id) ==
    IF st.error # "" THEN st
    ELSE IF id \notin DOMAIN st.scopes
    THEN [st EXCEPT !.error = "Expected a node for all scopes"]
    ELSE [st EXCEPT !.scopes[id].seen = TRUE]

\* Variant: the scope's seen flag is set and never consulted
forceMemoizeScopeDependenciesUnchecked(st, id) ==
    IF st.error # "" THEN st
    ELSE IF id \notin DOMAIN st.scopes
    THEN [st EXCEPT !.error = "Expected a node for all scopes"]
    ELSE ForceDependencies(
             [st EXCEPT !.scopes[id].seen = TRUE,
                        !.calls = Append(@, [callee |-> "forceMemoizeScopeDependencies",
                                             id |-> id])],
             st.scopes[id].dependencies, 1)

\* lines 290-302
forceMemoizeScopeDependencies(st, id) ==
    IF st.error # "" THEN st
    ELSE IF id \notin DOMAIN st.scopes
    THEN [st EXCEPT !.error = "Expected a node for all scopes"]
    ELSE IF st.scopes[id].seen THEN st
    ELSE ForceDependencies(
             [st EXCEPT !.scopes[id].seen = TRUE,
                        !.calls = Append(@, [callee |-> "forceMemoizeScopeDependencies",
                                             id |-> id])],
             st.scopes[id].dependencies, 1)

\* lines 298-300
ForceDependencies(st, deps, i) ==
    IF st.error # "" \/ i > Len(deps) THEN st
    ELSE ForceDependencies(visit(st, deps[i], TRUE), deps, i + 1)

RECURSIVE VisitReturned(_, _, _)
\* lines 305-307
VisitReturned(st, rets, i) ==
    IF st.error # "" \/ i > Len(rets) THEN st
    ELSE VisitReturned(visit(st, rets[i], FALSE), rets, i + 1)

computeMemoizedIdentifiers(state) ==
    VisitReturned([identifiers |-> state.identifiers, scopes |-> state.scopes,
                   memoized |-> <<>>, forcedFirst |-> {}, calls |-> <<>>, error |-> "",
                   ret |-> FALSE],
                  state.returned, 1)

----------------------------------------------------------------------------
(* The scope-pruning transform *)

\* Variant: the reassignments of the scope are not consulted
hasMemoizedOutputAmongDeclarations(scope, set) ==
    \E id \in scope.declarations : id \in set

\* lines 676-680; set is the memoized set
hasMemoizedOutput(scope, set) ==
    \/ \E id \in scope.declarations : id \in set
    \/ \E id \in scope.reassignments : id \in set

RECURSIVE transformScope(_, _, _)
RECURSIVE TransformBlock(_, _, _, _)

\* Variant: the block's own statements are not visited
transformScopeNoVisit(f, stmt, set) ==
    IF hasMemoizedOutput(f.scopes[stmt.scope], set)
    THEN <<stmt>>
    ELSE stmt.instructions

\* Variant: a block without a memoized output is removed with its statements
transformScopeRemoving(f, stmt, set) ==
    IF hasMemoizedOutput(f.scopes[stmt.scope], set)
    THEN <<[stmt EXCEPT !.instructions = TransformBlock(f, stmt.instructions, set, 1)]>>
    ELSE <<>>

\* Variant: the block's own statements are visited only when the block is kept
transformScopeVisitWhenKept(f, stmt, set) ==
    IF hasMemoizedOutput(f.scopes[stmt.scope], set)
    THEN <<[stmt EXCEPT !.instructions = TransformBlock(f, stmt.instructions, set, 1)]>>
    ELSE stmt.instructions

\* lines 671-686: the statements that stand in the block's place.  visitScope
\* (line 675) transforms the block's own statements first, in place.
transformScope(f, stmt, set) ==
    LET visited == TransformBlock(f, stmt.instructions, set, 1) IN
    IF hasMemoizedOutput(f.scopes[stmt.scope], set)
    THEN <<[stmt EXCEPT !.instructions = visited]>>
    ELSE visited

\* ReactiveFunctionTransform.traverseBlock: "keep" leaves the statement,
\* "replace-many" splices the statements given in its place.
TransformBlock(f, block, set, i) ==
    IF i > Len(block) THEN <<>>
    ELSE (IF block[i].kind = "scope"
          THEN transformScope(f, block[i], set)
          ELSE <<block[i]>>)
         \o TransformBlock(f, block, set, i + 1)

Pruned(f, set) == [f EXCEPT !.body = TransformBlock(f, f.body, set, 1)]

----------------------------------------------------------------------------
(* Reactive functions the pass is run on *)

Instruction(k, lv, v) == [id |-> k, lvalue |-> lv, value |-> v]

NoValue == Value("Primitive", NoPlace, <<>>, <<>>, <<>>)

NoInstruction == Instruction(0, NoPlace, NoValue)

InstructionStmt(instr) ==
    [kind |-> "instruction", instruction |-> instr, scope |-> 0,
     instructions |-> <<>>, terminal |-> "", value |-> 0]

ScopeStmt(s, block) ==
    [kind |-> "scope", instruction |-> NoInstruction, scope |-> s,
     instructions |-> block, terminal |-> "", value |-> 0]

ReturnStmt(v) ==
    [kind |-> "terminal", instruction |-> NoInstruction, scope |-> 0,
     instructions |-> <<>>, terminal |-> "return", value |-> v]

ReactiveScope(deps, decls, reassigned) ==
    [dependencies |-> deps, declarations |-> decls, reassignments |-> reassigned]

ScopeIds == 1..NumScopes

\* Duplicate-free sequences over S of length at most n
RECURSIVE OrderedSubsets(_, _)
OrderedSubsets(S, n) ==
    IF n = 0 THEN {<<>>}
    ELSE LET shorter == OrderedSubsets(S, n - 1) IN
         shorter \cup UNION { { Append(q, x) : x \in S \ Range(q) } : q \in shorter }

Read(r) == Place(r, "Read", 0)

\* The function's parameter
Param == MaxInstrs + 1

\* The values instruction k may compute from the identifiers assigned before
\* it: a primitive, a fresh array, an empty JSX fragment, a property of the
\* parameter, a property load, an array or a JSX element of one earlier
\* identifier, or a computed store of one earlier identifier into another.
FlatValues(k) ==
    {Value("Primitive", NoPlace, <<>>, <<>>, <<>>),
     Value("ArrayExpression", NoPlace, <<>>, <<>>, <<>>),
     Value("JsxFragment", NoPlace, <<>>, <<>>, <<>>),
     Value("PropertyLoad", Read(Param), <<>>, <<>>, <<>>)}
    \cup { Value("PropertyLoad", Read(r), <<>>, <<>>, <<>>) : r \in 1..(k - 1) }
    \cup { Value("ArrayExpression", NoPlace, <<Read(r)>>, <<>>, <<>>) : r \in 1..(k - 1) }
    \cup { Value("JsxExpression", NoPlace, <<Read(r)>>, <<>>, <<>>) : r \in 1..(k - 1) }
    \cup { Value("ComputedStore", Place(q[1], "Store", 0), <<Read(q[2])>>, <<>>, <<>>) :
             q \in { x \in (1..(k - 1)) \X (1..(k - 1)) : x[1] # x[2] } }

\* Each scope's instructions are contiguous
Contiguous(sc, n) ==
    \A i, j \in 1..n : i < j /\ sc[i] # 0 /\ sc[i] = sc[j] =>
        \A m \in i..j : sc[m] = sc[i]

RECURSIVE FlatBody(_, _, _, _)
\* Instruction k assigns identifier k; the instructions of one scope form its block.
FlatBody(vals, sc, k, open) ==
    IF k > Len(vals) THEN (IF open = <<>> THEN <<>> ELSE <<ScopeStmt(sc[k - 1], open)>>)
    ELSE LET stmt == InstructionStmt(Instruction(k, Place(k, "Store", sc[k]), vals[k]))
         IN  IF open # <<>> /\ sc[k] = sc[k - 1]
             THEN FlatBody(vals, sc, k + 1, Append(open, stmt))
             ELSE (IF open = <<>> THEN <<>> ELSE <<ScopeStmt(sc[k - 1], open)>>)
                  \o (IF sc[k] = 0 THEN <<stmt>> \o FlatBody(vals, sc, k + 1, <<>>)
                      ELSE FlatBody(vals, sc, k + 1, <<stmt>>))

RECURSIVE Returns(_, _)
Returns(rets, i) ==
    IF i > Len(rets) THEN <<>> ELSE <<ReturnStmt(rets[i])>> \o Returns(rets, i + 1)

FlatFunction(vals, sc, deps, rets) ==
    [id |-> 0, params |-> <<Param>>,
     scopes |-> [s \in ScopeIds |->
                   ReactiveScope(deps[s], { k \in 1..Len(vals) : sc[k] = s }, {})],
     body |-> FlatBody(vals, sc, 1, <<>>) \o Returns(rets, 1)]

FlatValuesChoice(n, vals) == \A k \in 1..n : vals[k] \in FlatValues(k)

\* Scope ids are taken in the order of their blocks.
FlatScopesChoice(n, sc) ==
    /\ Contiguous(sc, n)
    /\ \A k \in 1..n : sc[k] > 1 => \E j \in 1..(k - 1) : sc[j] = sc[k] - 1

\* A scope depends only on identifiers assigned before its block, and a scope
\* without a block on nothing.
FlatDepsChoice(n, sc, deps) ==
    \A s \in ScopeIds : \A d \in Range(deps[s]) :
        /\ \E k \in 1..n : sc[k] = s
        /\ \A k \in 1..n : sc[k] = s => d < k

\* The return terminals of a function of n instructions: `return;` alone when
\* it has no instruction, else up to MaxStmts - n returns of distinct identifiers.
FlatReturns(n) ==
    IF n = 0 THEN {<<0>>}
    ELSE OrderedSubsets(1..n, MaxStmts - n) \ {<<>>}

----------------------------------------------------------------------------
(* Functions with nested scope blocks.  Scope s has the block of the        *)
(* instructions iv[s][1]..iv[s][2], or no block when iv[s] = <<0, 0>>.      *)

NoBlock == <<0, 0>>

Intervals(n) == {NoBlock} \cup { q \in (1..n) \X (1..n) : q[1] <= q[2] }

Inside(a, b) == b[1] <= a[1] /\ a[2] <= b[2]

\* Scope s encloses scope t: its block contains t's, the lower id outside
\* when both blocks hold the same instructions.
Encloses(iv, s, t) ==
    /\ s # t /\ iv[s] # NoBlock /\ iv[t] # NoBlock
    /\ Inside(iv[t], iv[s])
    /\ (iv[s] = iv[t] => s < t)

\* Any two blocks are disjoint or nested
Laminar(iv) ==
    \A s, t \in ScopeIds :
        (s # t /\ iv[s] # NoBlock /\ iv[t] # NoBlock) =>
            \/ iv[s][2] < iv[t][1] \/ iv[t][2] < iv[s][1]
            \/ Inside(iv[s], iv[t]) \/ Inside(iv[t], iv[s])

\* The innermost scope whose block holds instruction k, 0 when there is none
InnermostScope(iv, k) ==
    LET holding == { s \in ScopeIds : iv[s] # NoBlock /\ iv[s][1] <= k /\ k <= iv[s][2] }
    IN  IF holding = {} THEN 0
        ELSE CHOOSE s \in holding : \A t \in holding \ {s} : Encloses(iv, t, s)

RECURSIVE NestedBody(_, _, _, _, _)
\* The statements for instructions k..hi inside the blocks of the scopes in open
NestedBody(vals, iv, k, hi, open) ==
    IF k > hi THEN <<>>
    ELSE LET starting == { s \in ScopeIds \ open :
                             /\ iv[s] # NoBlock /\ iv[s][1] = k /\ iv[s][2] <= hi
                             /\ \A t \in ScopeIds \ open : ~Encloses(iv, t, s) }
         IN  IF starting = {}
             THEN <<InstructionStmt(
                      Instruction(k, Place(k, "Store", InnermostScope(iv, k)), vals[k]))>>
                  \o NestedBody(vals, iv, k + 1, hi, open)
             ELSE LET s == CHOOSE x \in starting : TRUE IN
                  <<ScopeStmt(s, NestedBody(vals, iv, k, iv[s][2], open \cup {s}))>>
                  \o NestedBody(vals, iv, iv[s][2] + 1, hi, open)

NestedFunction(vals, iv, deps, outs, rets) ==
    [id |-> 0, params |-> <<Param>>,
     scopes |-> [s \in ScopeIds |->
                   ReactiveScope(deps[s], outs[s].declarations, outs[s].reassignments)],
     body |-> NestedBody(vals, iv, 1, Len(vals), {}) \o Returns(rets, 1)]

\* The values instruction k may compute: a primitive, a fresh array, or an
\* array of one identifier assigned before it.
NestedValues(k) ==
    {Value("Primitive", NoPlace, <<>>, <<>>, <<>>),
     Value("ArrayExpression", NoPlace, <<>>, <<>>, <<>>)}
    \cup { Value("ArrayExpression", NoPlace, <<Read(r)>>, <<>>, <<>>) : r \in 1..(k - 1) }

NestedValuesChoice(n, vals) == \A k \in 1..n : vals[k] \in NestedValues(k)

\* A scope depends only on identifiers assigned before its block, and a scope
\* without a block on nothing.
NestedDepsChoice(iv, deps) ==
    \A s \in ScopeIds : \A d \in Range(deps[s]) : iv[s] # NoBlock /\ d < iv[s][1]

\* What a scope declares or reassigns: at most one identifier in all, and
\* nothing when the scope has no block.
NestedOutputs(n) ==
    {[declarations |-> {}, reassignments |-> {}]}
    \cup { [declarations |-> {d}, reassignments |-> {}] : d \in 1..n }
    \cup { [declarations |-> {}, reassignments |-> {d}] : d \in 1..n }

NestedOutputsChoice(iv, outs) ==
    \A s \in ScopeIds :
        iv[s] = NoBlock => outs[s] = [declarations |-> {}, reassignments |-> {}]

----------------------------------------------------------------------------
(* Functions without scopes whose instructions assign, load, store, mutate  *)
(* and destructure a few identifiers in any order.                         *)

CollectorIds == 1..MaxCollectorIds

Step(lv, v) == [lvalue |-> lv, value |-> v]

Write(x) == Place(x, "Store", 0)

\* One instruction: its lvalue (NoPlace when it has none) and its value
CollectorSteps ==
    { Step(Write(l), Value(k, NoPlace, <<>>, <<>>, <<>>)) :
        l \in CollectorIds, k \in {"Primitive", "ArrayExpression", "JsxExpression"} }
    \cup { Step(Write(q[1]), Value("LoadLocal", NoPlace, <<Read(q[2])>>, <<>>, <<>>)) :
             q \in { x \in CollectorIds \X (CollectorIds \cup {Param}) : x[1] # x[2] } }
    \cup { Step(Write(q[1]),
                Value("CallExpression", NoPlace, <<Place(q[2], "Mutate", 0)>>, <<>>, <<>>)) :
             q \in { x \in CollectorIds \X CollectorIds : x[1] # x[2] } }
    \cup { Step(NoPlace, Value("DeclareLocal", Write(v), <<>>, <<>>, <<>>)) :
             v \in CollectorIds }
    \cup { Step(NoPlace, Value("StoreLocal", Write(q[1]), <<Read(q[2])>>, <<>>, <<>>)) :
             q \in { x \in CollectorIds \X (CollectorIds \cup {Param}) : x[1] # x[2] } }
    \cup { Step(NoPlace,
                Value("Destructure", NoPlace, <<Read(Param)>>,
                      <<[place |-> Write(v), rest |-> r]>>, <<>>)) :
             v \in CollectorIds, r \in BOOLEAN }

RECURSIVE StepsBody(_, _)
StepsBody(steps, k) ==
    IF k > Len(steps) THEN <<>>
    ELSE <<InstructionStmt(Instruction(k, steps[k].lvalue, steps[k].value))>>
         \o StepsBody(steps, k + 1)

CollectorFunction(steps, ret) ==
    [id |-> 0, params |-> <<Param>>,
     scopes |-> [s \in ScopeIds |-> ReactiveScope(<<>>, {}, {})],
     body |-> StepsBody(steps, 1) \o <<ReturnStmt(ret)>>]

----------------------------------------------------------------------------
(* Functions that may make the pass fail: an unsupported value, or a        *)
(* mention of an identifier that nothing assigns.                           *)

\* An identifier that no instruction assigns and that is no parameter
Unassigned == Param + 1

\* The values instruction k of scope s may compute
FaultyValues(k, s) ==
    {Value("Primitive", NoPlace, <<>>, <<>>, <<>>),
     Value("ArrayExpression", NoPlace, <<>>, <<>>, <<>>),
     Value("UnsupportedNode", NoPlace, <<>>, <<>>, <<>>)}
    \cup { Value("ArrayExpression", NoPlace, <<Place(r, "Read", q)>>, <<>>, <<>>) :
             r \in 1..(k - 1) \cup {Unassigned}, q \in {0, s} }

FaultyValuesChoice(n, sc, vals) == \A k \in 1..n : vals[k] \in FaultyValues(k, sc[k])

\* A scope with a block depends on nothing, on an identifier assigned before
\* its block, or on the unassigned identifier.
FaultyDepsChoice(n, sc, deps) ==
    \A s \in ScopeIds : \A d \in Range(deps[s]) :
        /\ \E k \in 1..n : sc[k] = s
        /\ d # Unassigned => \A k \in 1..n : sc[k] = s => d < k

----------------------------------------------------------------------------
(* The pass as a state machine *)

Start(f) ==
    /\ fn = f
    /\ input = f
    /\ options \in [memoizeJsxElements : BOOLEAN]
    /\ definitions = <<>>
    /\ identifiers = <<>>
    /\ scopes = <<>>
    /\ returned = <<>>
    /\ memoized = <<>>
    /\ forcedFirst = {}
    /\ calls = <<>>
    /\ error = ""
    /\ pc = "collect"
    /\ runs = 0

Init ==
    \E n \in 0..MaxInstrs :
      \E vals \in [1..n -> FlatValues(n)] :
        /\ FlatValuesChoice(n, vals)
        /\ \E sc \in [1..n -> 0..NumScopes] :
             /\ FlatScopesChoice(n, sc)
             /\ \E deps \in [ScopeIds -> OrderedSubsets(1..n, MaxScopeDeps)] :
                  /\ FlatDepsChoice(n, sc, deps)
                  /\ \E rets \in FlatReturns(n) :
                       Start(FlatFunction(vals, sc, deps, rets))

\* lines 111-118
Collect ==
    /\ pc = "collect"
    /\ LET st == Collected(fn, options) IN
       /\ definitions' = st.definitions
       /\ identifiers' = st.identifiers
       /\ scopes' = st.scopes
       /\ returned' = st.returned
       /\ error' = st.error
       /\ pc' = IF st.error = "" THEN "solve" ELSE "aborted"
    /\ UNCHANGED <<input, fn, options, memoized, forcedFirst, calls, runs>>

\* Variant: the solver's failure is recorded and the pass goes on
SolveAndGoOn ==
    /\ pc = "solve"
    /\ LET st == computeMemoizedIdentifiers(
                   [identifiers |-> identifiers, scopes |-> scopes,
                    returned |-> returned])
       IN
       /\ identifiers' = st.identifiers
       /\ scopes' = st.scopes
       /\ memoized' = st.memoized
       /\ forcedFirst' = st.forcedFirst
       /\ calls' = st.calls
       /\ error' = st.error
       /\ pc' = "prune"
    /\ UNCHANGED <<input, fn, options, definitions, returned, runs>>

\* line 124
Solve ==
    /\ pc = "solve"
    /\ LET st == computeMemoizedIdentifiers(
                   [identifiers |-> identifiers, scopes |-> scopes,
                    returned |-> returned])
       IN
       /\ identifiers' = st.identifiers
       /\ scopes' = st.scopes
       /\ memoized' = st.memoized
       /\ forcedFirst' = st.forcedFirst
       /\ calls' = st.calls
       /\ error' = st.error
       /\ pc' = IF st.error = "" THEN "prune" ELSE "aborted"
    /\ UNCHANGED <<input, fn, options, definitions, returned, runs>>

\* line 131
Prune ==
    /\ pc = "prune"
    /\ fn' = Pruned(fn, Range(memoized))
    /\ pc' = "done"
    /\ runs' = runs + 1
    /\ UNCHANGED <<input, options, definitions, identifiers, scopes, returned,
                   memoized, forcedFirst, calls, error>>

\* The pass is called again on the function it produced: a new State (line 111).
Again ==
    /\ pc = "done"
    /\ runs < MaxRuns
    /\ input' = fn
    /\ definitions' = <<>>
    /\ identifiers' = <<>>
    /\ scopes' = <<>>
    /\ returned' = <<>>
    /\ memoized' = <<>>
    /\ forcedFirst' = {}
    /\ calls' = <<>>
    /\ pc' = "collect"
    /\ UNCHANGED <<fn, options, error, runs>>

Next == Collect \/ Solve \/ Prune

Spec == Init /\ [][Next]_vars

InitNested ==
    \E n \in 0..MaxNestedInstrs :
      \E vals \in [1..n -> NestedValues(n)], iv \in [ScopeIds -> Intervals(n)] :
        /\ NestedValuesChoice(n, vals)
        /\ Laminar(iv)
        /\ \E deps \in [ScopeIds -> OrderedSubsets(1..n, MaxScopeDeps)],
              outs \in [ScopeIds -> NestedOutputs(n)] :
             /\ NestedDepsChoice(iv, deps)
             /\ NestedOutputsChoice(iv, outs)
             /\ \E rets \in FlatReturns(n) :
                  Start(NestedFunction(vals, iv, deps, outs, rets))

InitCollector ==
    \E n \in 0..MaxCollectorInstrs :
      \E steps \in [1..n -> CollectorSteps], ret \in CollectorIds :
        Start(CollectorFunction(steps, ret))

SpecCollector == InitCollector /\ [][Next]_vars

InitFaulty ==
    \E n \in 1..MaxFaultyInstrs :
      \E sc \in [1..n -> 0..NumScopes] :
        /\ FlatScopesChoice(n, sc)
        /\ \E vals \in [1..n -> UNION { FaultyValues(k, q) : k \in 1..n, q \in 0..NumScopes }] :
             /\ FaultyValuesChoice(n, sc, vals)
             /\ \E deps \in [ScopeIds ->
                               OrderedSubsets(1..n \cup {Unassigned}, MaxScopeDeps)],
                   ret \in 1..n \cup {Unassigned} :
                  /\ FaultyDepsChoice(n, sc, deps)
                  /\ Start(FlatFunction(vals, sc, deps, <<ret>>))

SpecFaulty == InitFaulty /\ [][Next]_vars

NextNested == Collect \/ Solve \/ Prune \/ Again

SpecNested == InitNested /\ [][NextNested]_vars

----------------------------------------------------------------------------
(* Vocabulary of the properties *)

Mem == Range(memoized)

Ids == DOMAIN identifiers

Level(id) == identifiers[id].level

Deps(id) == IF id \in Ids THEN Range(identifiers[id].dependencies) ELSE {}

ScopesOf(id) == IF id \in Ids THEN Range(identifiers[id].scopes) ELSE {}

ScopeDeps(s) == IF s \in DOMAIN scopes THEN Range(scopes[s].dependencies) ELSE {}

\* computeMemoizedIdentifiers has returned
Solved == pc \in {"prune", "done"}

\* pruneNonEscapingScopes has returned
Finished == pc = "done"

RECURSIVE ScopeBlocks(_, _)
\* The scopes that have a block in a body, nested blocks included
ScopeBlocks(block, i) ==
    IF i > Len(block) THEN {}
    ELSE (IF block[i].kind = "scope"
          THEN {block[i].scope} \cup ScopeBlocks(block[i].instructions, 1)
          ELSE {})
         \cup ScopeBlocks(block, i + 1)

Kept == ScopeBlocks(fn.body, 1)

RECURSIVE Flatten(_, _)
\* The statements of a body that are not scope blocks, in order, those inside
\* blocks in the place of their block
Flatten(block, i) ==
    IF i > Len(block) THEN <<>>
    ELSE (IF block[i].kind = "scope"
          THEN Flatten(block[i].instructions, 1)
          ELSE <<block[i]>>)
         \o Flatten(block, i + 1)

\* The identifiers a scope declares or reassigns
Outputs(f, s) == f.scopes[s].declarations \cup f.scopes[s].reassignments

\* The collector has returned without an error
Collectable == pc = "solve"

Rank(level) ==
    CASE level = "Never" -> 0
      [] level = "Unmemoized" -> 1
      [] level = "Conditional" -> 2
      [] level = "Memoized" -> 3

\* The greatest level of a non-empty set of levels
MaxLevel(S) == CHOOSE m \in S : \A x \in S : Rank(x) <= Rank(m)

\* The instructions of a body in the order the collector visits them
InstructionsOf(body) ==
    LET flat == Flatten(body, 1) IN
    [i \in { j \in DOMAIN flat : flat[j].kind = "instruction" } |-> flat[i].instruction]

\* The identifier that stands for x at instruction i: the source of the last
\* LoadLocal into x among the earlier instructions, x itself without one
ResolvedAt(ins, i, x) ==
    LET loads == { j \in DOMAIN ins : /\ j < i
                                      /\ ins[j].value.kind = "LoadLocal"
                                      /\ ins[j].lvalue.identifier = x }
    IN  IF loads = {} THEN x
        ELSE ins[CHOOSE j \in loads : \A m \in loads : m <= j].value.operands[1].identifier

\* The levels the instructions report for identifier id as an lvalue
ReportedLevels(f, opts, id) ==
    LET ins == InstructionsOf(f.body) IN
    UNION { { lv.level : lv \in { x \in Range(computeMemoizationInputs(
                                             ins[i].value, ins[i].lvalue, opts).lvalues) :
                                     ResolvedAt(ins, i, x.place.identifier) = id } } :
            i \in DOMAIN ins }

\* Every identifier a LoadLocal assigns is assigned by it before any other
\* instruction names the identifier as an lvalue
LoadsComeFirst(f, opts) ==
    LET ins == InstructionsOf(f.body) IN
    \A j \in DOMAIN ins :
        ins[j].value.kind = "LoadLocal" =>
            \A i \in DOMAIN ins :
                i # j =>
                    \A lv \in Range(computeMemoizationInputs(
                                       ins[i].value, ins[i].lvalue, opts).lvalues) :
                        lv.place.identifier = ins[j].lvalue.identifier => j < i

\* The bijections of 1..n
Orders(n) ==
    { p \in [1..n -> 1..n] : \A i, j \in 1..n : p[i] = p[j] => i = j }

\* f with the statements before its return in the order p
Reordered(f, p) ==
    LET n == Len(f.body) - 1 IN
    [f EXCEPT !.body = [i \in 1..(n + 1) |-> IF i <= n THEN f.body[p[i]] ELSE f.body[i]]]

LevelsOf(st) == [id \in DOMAIN st.identifiers |-> st.identifiers[id].level]

JsxKinds == {"JsxExpression", "JsxFragment"}

\* The kinds of the instructions that report identifier id as an lvalue
AssignedBy(f, opts, id) ==
    LET ins == InstructionsOf(f.body) IN
    { ins[i].value.kind :
        i \in { j \in DOMAIN ins :
                  \E lv \in Range(computeMemoizationInputs(
                                     ins[j].value, ins[j].lvalue, opts).lvalues) :
                      ResolvedAt(ins, j, lv.place.identifier) = id } }

\* id is assigned by JSX values only
JsxOnly(id) ==
    AssignedBy(input, options, id) # {} /\ AssignedBy(input, options, id) \subseteq JsxKinds

\* The scopes with a block in the input that declare id
Declaring(id) ==
    { s \in ScopeBlocks(input.body, 1) : id \in input.scopes[s].declarations }

\* The identifiers the instructions mention as an lvalue, collapsed through
\* the definitions in force at the mention
LvalueIds(f, opts) ==
    LET ins == InstructionsOf(f.body) IN
    UNION { { ResolvedAt(ins, i, lv.place.identifier) :
                lv \in Range(computeMemoizationInputs(
                               ins[i].value, ins[i].lvalue, opts).lvalues) } :
            i \in DOMAIN ins }

\* The identifiers the instructions mention as an rvalue, collapsed likewise
RvalueIds(f, opts) ==
    LET ins == InstructionsOf(f.body) IN
    UNION { { ResolvedAt(ins, i, rv.identifier) :
                rv \in Range(computeMemoizationInputs(
                               ins[i].value, ins[i].lvalue, opts).rvalues) } :
            i \in DOMAIN ins }

\* The identifiers declared before the collector runs
Declared(f) == Range(f.params) \cup (IF f.id # 0 THEN {f.id} ELSE {})

\* Every identifier the solver may look up
LookedUp == Range(returned) \cup UNION { Deps(i) : i \in Ids }
              \cup UNION { ScopeDeps(x) : x \in DOMAIN scopes }

\* The pairs <<l, r>> of an lvalue and an rvalue one instruction reports,
\* both collapsed through the definitions in force at the instruction
ReportedPairs(f, opts) ==
    LET ins == InstructionsOf(f.body) IN
    UNION { LET aliasing == computeMemoizationInputs(ins[i].value, ins[i].lvalue, opts)
            IN  { <<ResolvedAt(ins, i, lv.place.identifier), ResolvedAt(ins, i, rv.identifier)>> :
                    lv \in Range(aliasing.lvalues), rv \in Range(aliasing.rvalues) } :
            i \in DOMAIN ins }

RECURSIVE ParentPairs(_, _, _)
\* The pairs <<s, p>> of a scope with a block in the body and the scope of the
\* block directly around it, p = 0 at the top level
ParentPairs(block, i, p) ==
    IF i > Len(block) THEN {}
    ELSE (IF block[i].kind = "scope"
          THEN {<<block[i].scope, p>>}
                 \cup ParentPairs(block[i].instructions, 1, block[i].scope)
          ELSE {})
         \cup ParentPairs(block, i + 1, p)

\* The scope's own declarations and reassignments hold a memoized identifier
OwnOutputMemoized(s) == Outputs(input, s) \cap Mem # {}

ParentIn(s) == (CHOOSE q \in ParentPairs(input.body, 1, 0) : q[1] = s)[2]

RECURSIVE NearestKept(_)
\* The nearest scope around s in the input whose own output is memoized, or 0
NearestKept(s) ==
    LET p == ParentIn(s) IN
    IF p = 0 \/ OwnOutputMemoized(p) THEN p ELSE NearestKept(p)

RECURSIVE ContentsOf(_, _, _)
\* The flattened statements inside the block of scope s, <<>> without a block
ContentsOf(block, i, s) ==
    IF i > Len(block) THEN <<>>
    ELSE IF block[i].kind = "scope"
    THEN (IF block[i].scope = s THEN Flatten(block[i].instructions, 1)
          ELSE ContentsOf(block[i].instructions, 1, s))
         \o ContentsOf(block, i + 1, s)
    ELSE ContentsOf(block, i + 1, s)

\* How many times the solver went past the seen check of callee for id
TimesEntered(callee, id) ==
    Cardinality({ i \in DOMAIN calls : calls[i] = [callee |-> callee, id |-> id] })

\* The solver has returned or has raised its error
SolverLeft == pc \in {"prune", "done"} \/ (pc = "aborted" /\ calls # <<>>)

\* The instructions of a body that are a LoadLocal with an lvalue
Loads(f) ==
    LET ins == InstructionsOf(f.body) IN
    { j \in DOMAIN ins : ins[j].value.kind = "LoadLocal" /\ ins[j].lvalue.identifier # 0 }

\* The identifiers instruction i of a body mentions, as lvalue or rvalue
Mentions(f, opts, i) ==
    LET ins == InstructionsOf(f.body)
        aliasing == computeMemoizationInputs(ins[i].value, ins[i].lvalue, opts)
    IN  { lv.place.identifier : lv \in Range(aliasing.lvalues) }
          \cup { rv.identifier : rv \in Range(aliasing.rvalues) }

\* The sequence q in the order p
Permuted(q, p) == [i \in 1..Len(q) |-> q[p[i]]]

\* The memoized set the solver returns for a collected graph
MemoizedSet(ids, scs, rets) ==
    Range(computeMemoizedIdentifiers(
              [identifiers |-> ids, scopes |-> scs, returned |-> rets]).memoized)

RECURSIVE DepClosure(_)
\* What is reachable from S through identifier dependency edges
DepClosure(S) ==
    LET N == S \cup UNION { Deps(i) : i \in S } IN
    IF N = S THEN S ELSE DepClosure(N)

\* One scope-forcing hop: identifier -> one of its scopes -> that scope's dependencies
Hop(S) == UNION { ScopeDeps(s) : s \in UNION { ScopesOf(i) : i \in S } }

FromReturns == DepClosure(Range(returned))

RECURSIVE ForcedClosure(_)
\* What is reachable from S through dependency edges and through forcing hops
\* that start at a memoized identifier
ForcedClosure(S) ==
    LET N == DepClosure(S \cup Hop(S \cap Mem)) IN
    IF N = S THEN S ELSE ForcedClosure(N)

RECURSIVE AnyClosure(_)
\* What is reachable from S through dependency edges and forcing hops of any identifier
AnyClosure(S) ==
    LET N == DepClosure(S \cup Hop(S)) IN
    IF N = S THEN S ELSE AnyClosure(N)

\* id is a dependency of a scope that the solver forced
ForcingReached(id) ==
    \E s \in DOMAIN scopes : scopes[s].seen /\ id \in ScopeDeps(s)

----------------------------------------------------------------------------
(* Properties *)

\* C1: after the pass, every dependency of a kept scope whose level is not
\* Never is in the memoized set.
C1_TransitiveScopePreservation ==
    Finished =>
        \A s \in Kept : \A d \in Range(fn.scopes[s].dependencies) :
            (d \in Ids /\ Level(d) # "Never") => d \in Mem

\* C2 as stated: a returned identifier is in the memoized set unless its level
\* is Never, or Unmemoized with no scope forcing reaching it (its visit was not
\* a forced one); so a returned Conditional identifier always is.
C2_ReturnCoverageAsStated ==
    Solved =>
        \A id \in Range(returned) :
            \/ Level(id) = "Never"
            \/ (Level(id) = "Unmemoized" /\ id \notin forcedFirst)
            \/ id \in Mem

\* C2 amended: a returned identifier of level Memoized is in the memoized set;
\* one of level Unmemoized is in it exactly when its visit was a forced one;
\* one of level Conditional is in it when its visit was a forced one and
\* otherwise only when one of its dependencies is in the set; one of level
\* Never is not in it.
C2_ReturnCoverage ==
    Solved =>
        \A id \in Range(returned) :
            /\ Level(id) = "Memoized" => id \in Mem
            /\ Level(id) = "Unmemoized" => (id \in Mem <=> id \in forcedFirst)
            /\ (Level(id) = "Conditional" /\ id \in forcedFirst) => id \in Mem
            /\ (Level(id) = "Conditional" /\ id \notin forcedFirst /\ id \in Mem)
                  => \E d \in Deps(id) : d \in Mem
            /\ Level(id) = "Never" => id \notin Mem

C2_Witness ==
    /\ Solved
    /\ \E id \in Range(returned) :
          Level(id) = "Conditional" /\ id \in forcedFirst /\ id \in Mem
    /\ \E id \in Range(returned) : Level(id) = "Memoized" /\ id \in Mem

\* C3 as stated: every memoized identifier is reachable from a returned one
\* through dependency edges with at most one scope-forcing hop on the path.
C3_AtMostOneHop ==
    Solved => Mem \subseteq DepClosure(FromReturns \cup Hop(FromReturns))

\* C3 amended: every memoized identifier is reachable from a returned one
\* through dependency edges and any number of scope-forcing hops, each hop
\* starting at an identifier that is itself memoized.
C3_ReachabilitySoundness ==
    Solved => Mem \subseteq ForcedClosure(Range(returned))

C3_Witness ==
    /\ Solved
    /\ \E id \in Mem : id \notin DepClosure(FromReturns \cup Hop(FromReturns))

\* C4: the transform keeps a scope block if and only if an identifier the
\* scope declares or reassigns is in the memoized set, and a block it does not
\* keep is replaced by its instructions; so every kept scope declares or
\* reassigns a memoized identifier.
C4_KeptIffMemoizedOutput ==
    Finished =>
        /\ \A s \in ScopeBlocks(input.body, 1) :
              s \in Kept <=> (\E id \in Outputs(input, s) : id \in Mem)
        /\ Kept \subseteq ScopeBlocks(input.body, 1)
        /\ Flatten(fn.body, 1) = Flatten(input.body, 1)
        /\ \A s \in Kept : Outputs(fn, s) \cap Mem # {}

C4_Witness ==
    /\ Finished
    /\ runs = 1
    /\ \E s \in Kept :
          input.scopes[s].declarations \cap Mem = {} /\ input.scopes[s].reassignments \cap Mem # {}
    /\ \E s \in ScopeBlocks(input.body, 1) \ Kept : Outputs(input, s) # {}

\* C5: a second run on the function the first run produced leaves it unchanged.
C5_Idempotence ==
    (Finished /\ runs = 2) => fn = input

C5_Witness ==
    /\ Finished
    /\ runs = 2
    /\ Kept # {}
    /\ \E s \in ScopeIds : s \notin Kept /\ Outputs(fn, s) # {}

C7_ConditionalIffAsStated ==
    Solved =>
        \A id \in Ids :
            (Level(id) = "Conditional" /\ identifiers[id].seen) =>
                (id \in Mem <=> ((\E d \in Deps(id) : d \in Mem) \/ id \in forcedFirst))

\* C7 amended: a visited Conditional identifier is in the memoized set only if
\* one of its dependencies is in the set or its visit was a forced one; it is
\* in the set whenever its visit was a forced one, and whenever it has a
\* dependency d in the set from which it cannot be reached back through
\* dependency edges and scope-forcing hops.
C7_ConditionalMemoization ==
    Solved =>
        \A id \in Ids :
            (Level(id) = "Conditional" /\ identifiers[id].seen) =>
                /\ id \in Mem => ((\E d \in Deps(id) : d \in Mem) \/ id \in forcedFirst)
                /\ id \in forcedFirst => id \in Mem
                /\ (\E d \in Deps(id) : d \in Mem /\ id \notin AnyClosure({d}))
                      => id \in Mem

C7_Witness ==
    /\ Solved
    /\ \E id \in Ids :
          /\ Level(id) = "Conditional" /\ identifiers[id].seen /\ id \notin Mem
          /\ \E d \in Deps(id) : d \in Mem /\ id \in DepClosure({d})
    /\ \E id \in Ids :
          /\ Level(id) = "Conditional" /\ id \in Mem /\ id \notin forcedFirst
          /\ \E d \in Deps(id) : d \in Mem /\ id \notin AnyClosure({d})

\* C8: every identifier of level Memoized that is reachable from a returned
\* identifier through dependency edges is in the memoized set, whatever the
\* levels on the path; an identifier that is neither reachable that way nor
\* reached in the course of a scope forcing is not in the set.
C8_MemoizedWhenReachable ==
    Solved =>
        /\ \A id \in FromReturns \cap Ids : Level(id) = "Memoized" => id \in Mem
        /\ \A id \in Mem :
              \/ id \in FromReturns
              \/ id \in DepClosure({ x \in Ids : ForcingReached(x) })

C8_Witness ==
    /\ Solved
    /\ \E j \in Range(returned) :
          /\ Level(j) = "Unmemoized" /\ j \notin Mem
          /\ \E m \in Deps(j) : Level(m) = "Memoized" /\ m \in Mem
    /\ \E a \in Ids : Level(a) = "Memoized" /\ a \notin Mem

\* C9: when an identifier of scope S is in the memoized set, every dependency
\* of S whose level is Memoized is in the set too, also when it is not
\* reachable from a returned identifier through dependency edges.
C9_ScopeDependenciesForced ==
    Solved =>
        \A id \in Mem : \A s \in ScopesOf(id) : \A d \in ScopeDeps(s) :
            (d \in Ids /\ Level(d) = "Memoized") => d \in Mem

C9_Witness ==
    /\ Solved
    /\ \E id \in Mem : \E s \in ScopesOf(id) : \E d \in ScopeDeps(s) :
          /\ Level(d) = "Memoized" /\ d \in Mem /\ d \notin FromReturns
          /\ \E c \in Ids : c # id /\ s \in ScopesOf(c) /\ d \in Deps(c) /\ c \notin Mem

\* C10: an identifier of level Never is never in the memoized set, however it
\* is visited; when every returned identifier has level Never the memoized set
\* is empty and the transform leaves no scope block.
C10_NeverIsNeverMemoized ==
    /\ Solved => \A id \in Ids : Level(id) = "Never" => id \notin Mem
    /\ (Solved /\ \A r \in Range(returned) : Level(r) = "Never") => Mem = {}
    /\ (Finished /\ \A r \in Range(returned) : Level(r) = "Never") => Kept = {}

C10_Witness ==
    /\ Finished
    /\ \E id \in Ids :
          Level(id) = "Never" /\ id \in forcedFirst /\ id \notin Mem
    /\ \E id \in Range(returned) : Level(id) = "Never"

\* C11 as stated: a returned identifier assigned only by JSX values whose
\* operands are not memoized has, with memoizeJsxElements off, level Unmemoized,
\* is not in the memoized set unless its visit was a forced one, and then the
\* scope declaring it is pruned; with the option on it has level Memoized, is in
\* the set and the scope declaring it is kept.
C11_JsxFlagAsStated ==
    Finished =>
        \A id \in Range(returned) :
            (JsxOnly(id) /\ Deps(id) \cap Mem = {}) =>
                IF options.memoizeJsxElements
                THEN /\ Level(id) = "Memoized"
                     /\ id \in Mem
                     /\ Declaring(id) \subseteq Kept
                ELSE /\ Level(id) = "Unmemoized"
                     /\ id \in Mem => id \in forcedFirst
                     /\ id \notin forcedFirst =>
                           (id \notin Mem /\ Declaring(id) \cap Kept = {})

\* C11 amended: as stated, except that with the option off the scope
\* declaring the identifier is pruned only when the scope declares or
\* reassigns no identifier of the memoized set, and is kept otherwise; and with
\* the option off an identifier assigned only by JSX values, returned or not,
\* is in the memoized set exactly when its visit was a forced one.
C11_JsxFlag ==
    /\ Finished =>
          \A id \in Range(returned) :
              (JsxOnly(id) /\ Deps(id) \cap Mem = {}) =>
                  IF options.memoizeJsxElements
                  THEN /\ Level(id) = "Memoized"
                       /\ id \in Mem
                       /\ Declaring(id) \subseteq Kept
                  ELSE /\ Level(id) = "Unmemoized"
                       /\ \A s \in Declaring(id) :
                             s \in Kept <=> Outputs(input, s) \cap Mem # {}
    /\ (Solved /\ ~options.memoizeJsxElements) =>
          \A id \in Ids :
              (JsxOnly(id) /\ identifiers[id].seen) =>
                  (id \in Mem <=> id \in forcedFirst)

C11_Witness ==
    /\ Finished
    /\ ~options.memoizeJsxElements
    /\ \E id \in Range(returned) :
          /\ JsxOnly(id) /\ id \notin Mem
          /\ Declaring(id) # {} /\ Declaring(id) \cap Kept = {}
    /\ \E id \in Ids : JsxOnly(id) /\ id \in Mem /\ id \in forcedFirst

\* C12: when the pass has aborted with an error the function is as it was
\* handed in; the function differs from the input only once the collector and
\* the solver have both finished without an error.
C12_AllOrNothing ==
    /\ pc = "aborted" => (error # "" /\ fn = input)
    /\ error # "" => (fn = input /\ pc = "aborted")
    /\ fn # input => (pc = "done" /\ error = "")

C12_Witness ==
    /\ pc = "aborted"
    /\ error = "Expected a node for all identifiers"
    /\ Mem # {}
    /\ \E s \in ScopeBlocks(input.body, 1) : Outputs(input, s) \cap Mem = {}

C14_DependenciesWithoutSelfLoops ==
    Collectable =>
        /\ \A q \in ReportedPairs(fn, options) :
              q[1] # q[2] => q[2] \in Deps(q[1])
        /\ \A id \in Ids :
              /\ id \notin Deps(id)
              /\ \A d \in Deps(id) : <<id, d>> \in ReportedPairs(fn, options)

C14_Witness ==
    /\ Collectable
    /\ \E q \in ReportedPairs(fn, options) :
          /\ q[1] = q[2]
          /\ \E x \in DOMAIN definitions : definitions[x] = q[1]
    /\ \E q \in ReportedPairs(fn, options) : q[1] # q[2] /\ q[2] \in Deps(q[1])

\* C15: a scope block is kept exactly when its own declarations and
\* reassignments hold a memoized identifier, whatever happens to the blocks
\* around it; afterwards a kept block lies directly inside the nearest block
\* around it that is kept too, at the top level when there is none.
C15_NestedScopesIndependent ==
    Finished =>
        ParentPairs(fn.body, 1, 0) =
            { <<q[1], NearestKept(q[1])>> :
                q \in { x \in ParentPairs(input.body, 1, 0) : OwnOutputMemoized(x[1]) } }

C15_Witness ==
    /\ Finished
    /\ runs = 1
    /\ \E q \in ParentPairs(input.body, 1, 0) :
          /\ q[2] # 0
          /\ ~OwnOutputMemoized(q[2])
          /\ OwnOutputMemoized(q[1])
          /\ <<q[1], 0>> \in ParentPairs(fn.body, 1, 0)

\* C16: the instructions and terminals of the function, scope blocks
\* flattened, are the same sequence before and after the pass; a kept block
\* holds the same instructions as before; the scopes, the parameters and the
\* id of the function are untouched.
C16_OnlyScopeBoundariesChange ==
    Finished =>
        /\ Flatten(fn.body, 1) = Flatten(input.body, 1)
        /\ \A s \in Kept : ContentsOf(fn.body, 1, s) = ContentsOf(input.body, 1, s)
        /\ [fn EXCEPT !.body = input.body] = input

C16_Witness ==
    /\ Finished
    /\ runs = 1
    /\ fn # input
    /\ \E q \in ParentPairs(input.body, 1, 0) :
          /\ q[2] \in Kept
          /\ q[1] \notin Kept
          /\ Len(ContentsOf(input.body, 1, q[2])) > Len(ContentsOf(input.body, 1, q[1]))

\* C17: when the solver has returned, it went past the seen check of visit at
\* most once for every identifier and past the seen check of
\* forceMemoizeScopeDependencies at most once for every scope, whatever cycles
\* the dependencies and the forcing edges form; so it made no more such calls
\* than there are nodes.
C17_EachNodeEnteredOnce ==
    SolverLeft =>
        /\ \A id \in Ids : TimesEntered("visit", id) <= 1
        /\ \A s \in DOMAIN scopes : TimesEntered("forceMemoizeScopeDependencies", s) <= 1
        /\ \A i \in DOMAIN calls :
              \/ calls[i].callee = "visit" /\ calls[i].id \in Ids
              \/ calls[i].callee = "forceMemoizeScopeDependencies"
                   /\ calls[i].id \in DOMAIN scopes
        /\ Len(calls) <= Cardinality(Ids) + Cardinality(DOMAIN scopes)

\* A dependency cycle and a forcing cycle were walked: an identifier that
\* depends on itself through others was entered, and a forced scope has a
\* dependency from which the walk arrives at a memoized identifier of that
\* same scope, that is, at the scope's seen check again.
C17_Witness ==
    /\ Solved
    /\ \E id \in Ids :
          /\ TimesEntered("visit", id) = 1
          /\ id \in DepClosure(Deps(id))
    /\ \E s \in DOMAIN scopes :
          /\ TimesEntered("forceMemoizeScopeDependencies", s) = 1
          /\ \E d \in ScopeDeps(s) :
                \E i \in ForcedClosure({d}) : s \in ScopesOf(i) /\ i \in Mem

\* C18: once the collector is done, definitions maps the lvalue of every
\* LoadLocal to the identifier its last LoadLocal loads, unresolved, and maps
\* nothing else; a LoadLocal's own lvalue and rvalue are looked up with the
\* definitions of the instructions before it; every mention is looked up by
\* one step through the definitions recorded before its instruction, and it
\* is the node of the identifier so found that gets the level, the
\* dependencies and the existence, never the node of the mentioned one.
C18_DefinitionsOneStep ==
    Collectable =>
        LET ins == InstructionsOf(fn.body)
            end == Len(fn.body) + 1
        IN
        /\ DOMAIN definitions = { ins[j].lvalue.identifier : j \in Loads(fn) }
        /\ \A L \in DOMAIN definitions :
              /\ definitions[L] = ResolvedAt(ins, end, L)
              /\ \E j \in Loads(fn) :
                    /\ ins[j].lvalue.identifier = L
                    /\ ins[j].value.operands[1].identifier = definitions[L]
        /\ \A j \in Loads(fn) :
              LET l == ResolvedAt(ins, j, ins[j].lvalue.identifier)
                  r == ResolvedAt(ins, j, ins[j].value.operands[1].identifier)
              IN  /\ l \in Ids
                  /\ Rank(Level(l)) >= Rank("Conditional")
                  /\ r # l => r \in Deps(l)
        /\ \A i \in DOMAIN ins :
              LET aliasing == computeMemoizationInputs(ins[i].value, ins[i].lvalue, options)
              IN  \A lv \in Range(aliasing.lvalues) :
                      LET l == ResolvedAt(ins, i, lv.place.identifier) IN
                      /\ l \in Ids
                      /\ Rank(Level(l)) >= Rank(lv.level)
                      /\ \A rv \in Range(aliasing.rvalues) :
                            LET r == ResolvedAt(ins, i, rv.identifier) IN
                            r # l => r \in Deps(l)
        /\ Ids \subseteq LvalueIds(fn, options) \cup Declared(fn)
        /\ \A id \in Ids : Deps(id) \subseteq RvalueIds(fn, options)

\* A chain of two definitions is in force when an instruction mentions its
\* head: one step leads to an identifier that a further step would leave.
C18_Witness ==
    /\ Collectable
    /\ LET ins == InstructionsOf(fn.body) IN
       \E i \in DOMAIN ins : \E B \in Mentions(fn, options, i) :
          LET A == ResolvedAt(ins, i, B) IN
          /\ A # B
          /\ ResolvedAt(ins, i, A) \notin {A, B}
          /\ A \in Ids
          /\ ins[i].value.kind # "LoadLocal"
          /\ definitions[B] = A
          /\ definitions[A] # A

\* C19: for the graph the collector has built, the memoized set the solver
\* returns is the same for every order of the returned identifiers, for every
\* order of any node's dependencies and for every order of any node's scopes;
\* so an identifier visited first without forceMemoize and reached later with
\* it fares as one reached with forceMemoize first.
C19_OrderIndependent ==
    Collectable =>
        LET M == MemoizedSet(identifiers, scopes, returned) IN
        /\ \A p \in Orders(Len(returned)) :
              MemoizedSet(identifiers, scopes, Permuted(returned, p)) = M
        /\ \A id \in Ids :
              /\ \A p \in Orders(Len(identifiers[id].dependencies)) :
                    MemoizedSet([identifiers EXCEPT ![id].dependencies = Permuted(@, p)],
                                scopes, returned) = M
              /\ \A p \in Orders(Len(identifiers[id].scopes)) :
                    MemoizedSet([identifiers EXCEPT ![id].scopes = Permuted(@, p)],
                                scopes, returned) = M

====
